---- MODULE Spec2Model ----
(***************************************************************************)
(* Contact-form notification handlers of the repository.                   *)
(*                                                                         *)
(* Four handler definitions are modelled, one per `variant`:               *)
(*   "netlify" : src/telegram.js                    exports.handler        *)
(*   "topic"   : src/netlify/functions/telegram.js  exports.handler        *)
(*   "cors"    : src/api/telegram.js, lines 18-174  handler                *)
(*   "vercel"  : src/api/telegram.js, lines 292-365 handler (second def.)  *)
(*                                                                         *)
(* Each handler definition is modelled as deployed on its own: as committed, *)
(* src/telegram.js opens with the stray text `git pu` and                  *)
(* src/api/telegram.js holds both of its handlers as `export default`.     *)
(*                                                                         *)
(* Text is modelled as a sequence of atoms.  An atom is one character of   *)
(* text the model has to look into (e-mail characters, the bot token, the  *)
(* characters the escaper rewrites) or one chunk of literal text of the    *)
(* source.                                                                 *)
(***************************************************************************)
EXTENDS Integers, Sequences, FiniteSets, TLC

VARIABLES
    env,        \* process.env: BOT_TOKEN, CHAT_ID, TOPIC_ID, NODE_ENV
    pc,         \* per invocation: the step the handler is at
    request,    \* per invocation: variant, method and body handed in
    body,       \* per invocation: the local `body` (value being destructured)
    data,       \* per invocation: the locals name, email, company, message
    local,      \* per invocation: chatId, topicIdNum, telegramResponse, error
    response,   \* per invocation: the HTTP response produced
    log,        \* per invocation: console output, one entry per call
    calls,      \* per invocation: number of fetch() calls issued
    payload     \* per invocation: url and request body of the last fetch()

vars == <<env, pc, request, body, data, local, response, log, calls, payload>>

----------------------------------------------------------------------------
(* Bounds of the model *)

\* longest e-mail string enumerated by the e-mail specification
MaxEmailLen == 5

----------------------------------------------------------------------------
(* JavaScript values *)

\* a property that is not there (undefined)
Absent == [k |-> "absent", s |-> <<>>]

\* JSON null
Null == [k |-> "null", s |-> <<>>]

\* a string value, s its text
Str(s) == [k |-> "str", s |-> s]

\* !v for the values above
Falsy(v) == v.k \in {"absent", "null"} \/ (v.k = "str" /\ v.s = <<>>)

\* value || fallback
OrElse(s, fallback) == IF s = <<>> THEN fallback ELSE s

\* all sequences over S of length at most n
SeqsUpTo(S, n) == UNION {[1..k -> S] : k \in 0..n}

\* is pat a contiguous part of s
Contains(s, pat) ==
    \E i \in 1..(Len(s) - Len(pat) + 1) : SubSeq(s, i, i + Len(pat) - 1) = pat

\* String.prototype.replace(pat, rep) with a string pattern: first occurrence only
ReplaceFirst(s, pat, rep) ==
    IF Contains(s, pat)
    THEN LET i == CHOOSE j \in 1..(Len(s) - Len(pat) + 1) :
                      /\ SubSeq(s, j, j + Len(pat) - 1) = pat
                      /\ \A h \in 1..(j - 1) : SubSeq(s, h, h + Len(pat) - 1) # pat
         IN SubSeq(s, 1, i - 1) \o rep \o SubSeq(s, i + Len(pat), Len(s))
    ELSE s

\* String.prototype.replace(/c/g, rep): every occurrence of the character c
RECURSIVE ReplaceAll(_, _, _)
ReplaceAll(s, c, rep) ==
    IF s = <<>> THEN <<>>
    ELSE (IF Head(s) = c THEN rep ELSE <<Head(s)>>) \o ReplaceAll(Tail(s), c, rep)

\* digits Number() reads in the model
DigitVal == [c \in {"0", "1", "7"} |-> IF c = "0" THEN 0 ELSE IF c = "1" THEN 1 ELSE 7]

RECURSIVE DigitsValue(_, _)
DigitsValue(s, acc) ==
    IF s = <<>> THEN acc ELSE DigitsValue(Tail(s), 10 * acc + DigitVal[Head(s)])

\* the text without the white space at its ends
RECURSIVE TrimStart(_)
TrimStart(s) == IF s # <<>> /\ Head(s) = " " THEN TrimStart(Tail(s)) ELSE s

RECURSIVE TrimEnd(_)
TrimEnd(s) ==
    IF s # <<>> /\ s[Len(s)] = " " THEN TrimEnd(SubSeq(s, 1, Len(s) - 1)) ELSE s

\* Number(text) for a text of the environment.  White space at the ends is
\* dropped; the empty text is 0; an optionally signed run of digits is that
\* number; "Infinity" (one atom) is the number Infinity, which is not NaN
\* and not finite; any other text is NaN
Number(s) ==
    LET t == TrimEnd(TrimStart(s))
        signed == t # <<>> /\ Head(t) = "-"
        digits == IF signed THEN Tail(t) ELSE t
    IN  IF t = <<>> THEN [nan |-> FALSE, finite |-> TRUE, n |-> 0]
        ELSE IF digits = <<"Infinity">> THEN [nan |-> FALSE, finite |-> FALSE, n |-> 0]
        ELSE IF digits # <<>> /\ \A i \in 1..Len(digits) : digits[i] \in DOMAIN DigitVal
        THEN [nan |-> FALSE, finite |-> TRUE,
              n |-> IF signed THEN 0 - DigitsValue(digits, 0) ELSE DigitsValue(digits, 0)]
        ELSE [nan |-> TRUE, finite |-> FALSE, n |-> 0]

----------------------------------------------------------------------------
(* E-mail format: /^[^\s@]+@[^\s@]+\.[^\s@]+$/ *)

\* characters e-mail strings are built from; " " stands for any \s character
EmailChars == {"a", "@", ".", " "}

\* the class [^\s@]
NotSpaceNotAt(c) == c \notin {" ", "@"}

\* mutant of EmailStep: the literal dot is not required (/^[^\s@]+@[^\s@]+$/)
EmailStepNoDot(q, c) ==
    CASE q = 0 -> IF NotSpaceNotAt(c) THEN {1} ELSE {}
      [] q = 1 -> IF NotSpaceNotAt(c) THEN {1} ELSE IF c = "@" THEN {2} ELSE {}
      [] q = 2 -> IF NotSpaceNotAt(c) THEN {5} ELSE {}
      [] q = 5 -> IF NotSpaceNotAt(c) THEN {5} ELSE {}
      [] OTHER -> {}

\* one step of the automaton of the pattern.  Positions: 0 before the first
\* run, 1 inside it, 2 after '@', 3 inside the second run, 4 after the literal
\* dot, 5 inside the last run (accepting)
EmailStep(q, c) ==
    CASE q = 0 -> IF NotSpaceNotAt(c) THEN {1} ELSE {}
      [] q = 1 -> IF NotSpaceNotAt(c) THEN {1} ELSE IF c = "@" THEN {2} ELSE {}
      [] q = 2 -> IF NotSpaceNotAt(c) THEN {3} ELSE {}
      [] q = 3 -> IF NotSpaceNotAt(c)
                  THEN (IF c = "." THEN {3, 4} ELSE {3})
                  ELSE {}
      [] q = 4 -> IF NotSpaceNotAt(c) THEN {5} ELSE {}
      [] q = 5 -> IF NotSpaceNotAt(c) THEN {5} ELSE {}
      [] OTHER -> {}

RECURSIVE EmailRun(_, _)
EmailRun(qs, s) ==
    IF s = <<>> THEN qs
    ELSE EmailRun(UNION {EmailStep(q, Head(s)) : q \in qs}, Tail(s))

\* emailRegex.test(email)
EmailRegexTest(s) == 5 \in EmailRun({0}, s)

----------------------------------------------------------------------------
(* escapeHtml and formatTelegramMessage *)

\* mutant of escapeHtml: '&' is replaced last, after the other four
escapeHtmlAmpLast(v) ==
    IF Falsy(v) THEN <<>>
    ELSE LET s1 == ReplaceAll(v.s, "<", <<"&", "l", "t", ";">>)
             s2 == ReplaceAll(s1, ">", <<"&", "g", "t", ";">>)
             s3 == ReplaceAll(s2, "\"", <<"&", "q", "u", "o", "t", ";">>)
             s4 == ReplaceAll(s3, "'", <<"&", "#", "0", "3", "9", ";">>)
         IN  ReplaceAll(s4, "&", <<"&", "a", "m", "p", ";">>)

\* escapeHtml(text): five global replacements, '&' first
escapeHtml(v) ==
    IF Falsy(v) THEN <<>>
    ELSE LET s1 == ReplaceAll(v.s, "&", <<"&", "a", "m", "p", ";">>)
             s2 == ReplaceAll(s1, "<", <<"&", "l", "t", ";">>)
             s3 == ReplaceAll(s2, ">", <<"&", "g", "t", ";">>)
             s4 == ReplaceAll(s3, "\"", <<"&", "q", "u", "o", "t", ";">>)
         IN  ReplaceAll(s4, "'", <<"&", "#", "0", "3", "9", ";">>)

\* String.prototype.trim() leaves something
NotBlank(s) == \E i \in 1..Len(s) : s[i] # " "

\* formatTelegramMessage(name, email, company, message)
formatTelegramMessage(name, email, company, message) ==
    <<"[title]", "[name:]">> \o escapeHtml(name)
    \o <<"[email:]">> \o escapeHtml(email)
    \o (IF ~Falsy(company) /\ NotBlank(company.s)
        THEN <<"[company:]">> \o escapeHtml(company) ELSE <<>>)
    \o <<"[message:]">> \o escapeHtml(message)
    \o <<"[sent:]", "[dateTime]">>

----------------------------------------------------------------------------
(* Environment, requests, downstream answers *)

\* the four handler definitions
Variants == {"netlify", "topic", "cors", "vercel"}

\* variants whose platform hands the body over as text only (event.body)
NetlifyVariants == {"netlify", "topic"}

\* the secret bot token of the deployment
Token == <<"7", ":", "K">>

\* process.env as the platform can set it
Environments ==
    [BOT_TOKEN : {Absent, Str(<<>>), Str(Token)},
     CHAT_ID   : {Absent, Str(<<>>), Str(<<"-", "1", "0">>), Str(<<"x">>)},
     TOPIC_ID  : {Absent},
     NODE_ENV  : {Absent, Str(<<"development">>)}]

\* values a JSON body can hold
NoFields == [name |-> Absent, email |-> Absent, company |-> Absent, message |-> Absent]

JsValue(t, f) == [t |-> t, f |-> f]

Objects(names, emails, companies, messages) ==
    {JsValue("obj", f) : f \in [name : names, email : emails,
                                company : companies, message : messages]}

NonObjects == {JsValue("null", NoFields), JsValue("num", NoFields)}

\* req.body / event.body: nothing, text that is no JSON, JSON text of val,
\* or (Vercel only) the value val already parsed by the platform
Bodies(variant, values) ==
    {[kind |-> "undefined", val |-> JsValue("undefined", NoFields)],
     [kind |-> "malformed", val |-> JsValue("undefined", NoFields)]}
    \cup {[kind |-> "json", val |-> v] : v \in values}
    \cup (IF variant \in NetlifyVariants THEN {}
          ELSE {[kind |-> "parsed", val |-> v] : v \in values})

Methods == {"POST", "GET", "OPTIONS"}

RequestsOver(methods, values) ==
    UNION {[variant : {v}, method : methods, body : Bodies(v, values)] : v \in Variants}

\* a well-formed submission
ValidEmail == <<"a", "@", "a", ".", "a">>

\* form values of the main specification: every way a required field can be
\* missing, a well-formed and an ill-formed e-mail, with and without company
FormValues ==
    NonObjects
    \cup Objects({Absent, Null, Str(<<>>), Str(<<"n">>)},
                 {Absent, Null, Str(<<>>), Str(ValidEmail), Str(<<"a", "@", "a">>)},
                 {Absent, Str(<<"c">>)},
                 {Absent, Null, Str(<<>>), Str(<<"m">>)})

Requests == RequestsOver(Methods, FormValues)

\* form values of the e-mail specification: every e-mail text up to MaxEmailLen
EmailValues ==
    Objects({Str(<<"n">>)},
            {Str(s) : s \in SeqsUpTo(EmailChars, MaxEmailLen)},
            {Absent},
            {Str(<<"m">>)})

EmailRequests ==
    {r \in RequestsOver({"POST"}, EmailValues) : r.body.kind \in {"json", "parsed"}}

\* what response.json() can resolve to
NoData == [ok |-> FALSE, hasResult |-> FALSE, message_id |-> 0,
           error_code |-> 0, description |-> <<>>]

DownstreamData ==
    {[ok |-> TRUE, hasResult |-> TRUE, message_id |-> m,
      error_code |-> 0, description |-> <<>>] : m \in {42, 43}}
    \cup {[ok |-> TRUE, hasResult |-> FALSE, message_id |-> 0,
           error_code |-> 0, description |-> <<>>]}
    \cup {[ok |-> FALSE, hasResult |-> FALSE, message_id |-> 0,
           error_code |-> c, description |-> d] :
              c \in {0, 400}, d \in {<<>>, <<"Bad Request">>}}

----------------------------------------------------------------------------
(* Responses *)

NoId == [has |-> FALSE, id |-> 0]

NoResponse ==
    [status |-> 0, json |-> FALSE, success |-> FALSE, error |-> <<>>,
     messageId |-> NoId, details |-> Absent]

\* res.status(s).json({success:false, error}) and the Netlify equivalent
ErrorResponse(status, error) ==
    [status |-> status, json |-> TRUE, success |-> FALSE, error |-> error,
     messageId |-> NoId, details |-> Absent]

\* res.status(200).end()
PreflightResponse ==
    [status |-> 200, json |-> FALSE, success |-> FALSE, error |-> <<>>,
     messageId |-> NoId, details |-> Absent]

\* mutant of MethodRejected: GET is let through as well
MethodRejectedAllowGet(method) == method \notin {"POST", "GET"}

\* the method gate
MethodRejected(method) == method # "POST"

MethodNotAllowedText(variant, method) ==
    IF variant = "cors"
    THEN <<"Method not allowed. Use POST. Received: ", method>>
    ELSE <<"Method not allowed. Use POST.">>

\* mutant of ConfigMissing: only the token is checked
ConfigMissingTokenOnly(token, chat) == Falsy(token)

\* mutant of ConfigMissing: a failure of any invocation is remembered
ConfigMissingAfterFailure(token, chat) ==
    Falsy(token) \/ Falsy(chat) \/ \E j \in DOMAIN response : response[j].status = 500

\* !BOT_TOKEN || !CHAT_ID
ConfigMissing(token, chat) == Falsy(token) \/ Falsy(chat)

NotConfiguredText(variant) ==
    IF variant \in NetlifyVariants
    THEN <<"Telegram bot not configured">>
    ELSE <<"Telegram bot not configured. Please set TELEGRAM_BOT_TOKEN and TELEGRAM_CHAT_ID environment variables.">>

\* mutant of SuccessResponse: the message id of the answer is dropped
SuccessResponseNoId(d) ==
    [status |-> 200, json |-> TRUE, success |-> TRUE,
     error |-> <<>>, messageId |-> NoId, details |-> Absent]

\* the 200 response built from the downstream answer
SuccessResponse(d) ==
    [status |-> 200, json |-> TRUE, success |-> TRUE,
     error |-> <<>>, messageId |-> [has |-> TRUE, id |-> d.message_id],
     details |-> Absent]

\* mutant of CatchResponse: the failure is answered with the error text itself
CatchResponseRawError(variant, nodeEnv, error) ==
    [status |-> 500, json |-> TRUE, success |-> FALSE,
     error |-> error, messageId |-> NoId, details |-> Absent]

\* the response of the catch block
CatchResponse(variant, nodeEnv, error) ==
    [status |-> 500, json |-> TRUE, success |-> FALSE,
     error |-> <<"Failed to send Telegram notification">>,
     messageId |-> NoId,
     details |-> IF variant = "cors"
                 THEN Str(OrElse(error, <<"Unknown error">>))
                 ELSE IF nodeEnv = Str(<<"development">>) THEN Str(error) ELSE Absent]

\* message of the Error thrown when the downstream answer has ok false
ApiErrorText(variant, d) ==
    IF variant = "cors"
    THEN <<"Telegram API error: ">>
         \o (IF d.error_code = 0 THEN <<"unknown">> ELSE <<ToString(d.error_code)>>)
         \o <<" - ">> \o OrElse(d.description, <<"Unknown error">>)
    ELSE <<"Telegram API error: ">> \o OrElse(d.description, <<"Unknown error">>)

\* the url of the bot API call
ApiUrl(token) == <<"https://api.telegram.org/bot">> \o token \o <<"/sendMessage">>

\* mutant of LoggedUrl: the url is logged as it is
LoggedUrlRaw(url, token) == url

\* url.replace(botToken, 'TOKEN_HIDDEN')
LoggedUrl(url, token) == ReplaceFirst(url, token, <<"TOKEN_HIDDEN">>)

----------------------------------------------------------------------------
(* State of one invocation *)

NoBody == JsValue("undefined", NoFields)

NoChatId == [t |-> "none", s |-> <<>>, n |-> 0]

\* topicIdNum = null
NoTopic == [null |-> TRUE, nan |-> FALSE, finite |-> TRUE, n |-> 0]

\* a member that is not in the JSON text of the request body
NoMember == [k |-> "absent", n |-> 0]

NoLocal ==
    [BOT_TOKEN |-> Absent, CHAT_ID |-> Absent, chatId |-> NoChatId,
     topicIdNum |-> NoTopic, telegramResponse |-> NoData, error |-> <<>>]

NoPayload ==
    [url |-> <<>>, chat_id |-> NoChatId, text |-> <<>>,
     message_thread_id |-> NoMember]

NoRequest ==
    [variant |-> "netlify", method |-> "POST",
     body |-> [kind |-> "undefined", val |-> NoBody]]

\* the invocation that runs in the sequential specifications
Slots == {1}

Upd(f, i, v) == [f EXCEPT ![i] = v]

\* the value the handler sees before any parsing: text is a string value
AsIs(b) ==
    CASE b.kind = "parsed" -> b.val
      [] b.kind \in {"malformed", "json"} -> JsValue("string", NoFields)
      [] OTHER -> NoBody

\* JSON.parse(text): the value, or a SyntaxError
JSONparse(b) ==
    IF b.kind = "json" THEN [ok |-> TRUE, val |-> b.val]
    ELSE [ok |-> FALSE, val |-> NoBody]

\* const { name, email, company, message } = value throws a TypeError
DestructureThrows(v) == v.t \in {"null", "undefined"}

\* the properties read off a value
FieldsOf(v) == IF v.t = "obj" THEN v.f ELSE NoFields

----------------------------------------------------------------------------
(* Initial states *)

InitSlots(n, environments) ==
    /\ env \in environments
    /\ pc = [i \in 1..n |-> "idle"]
    /\ request = [i \in 1..n |-> NoRequest]
    /\ body = [i \in 1..n |-> NoBody]
    /\ data = [i \in 1..n |-> NoFields]
    /\ local = [i \in 1..n |-> NoLocal]
    /\ response = [i \in 1..n |-> NoResponse]
    /\ log = [i \in 1..n |-> <<>>]
    /\ calls = [i \in 1..n |-> 0]
    /\ payload = [i \in 1..n |-> NoPayload]

Init == InitSlots(1, Environments)

\* environments of the e-mail specification: token set or not, chat id
\* numeric or not
EmailEnvironments ==
    {e \in Environments : /\ e.CHAT_ID \in {Str(<<"-", "1", "0">>), Str(<<"x">>)}
                          /\ e.BOT_TOKEN \in {Absent, Str(Token)}
                          /\ e.NODE_ENV = Absent}

InitEmail == InitSlots(1, EmailEnvironments)

----------------------------------------------------------------------------
(* The handler, step by step *)

\* the platform calls the handler with request r
Start(i, r) ==
    /\ pc[i] = "idle"
    /\ pc' = Upd(pc, i, "method")
    /\ request' = Upd(request, i, r)
    /\ UNCHANGED <<env, body, data, local, response, log, calls, payload>>

Invoke(i) == pc[i] = "idle" /\ \E r \in Requests : Start(i, r)

InvokeEmail(i) == pc[i] = "idle" /\ \E r \in EmailRequests : Start(i, r)

\* method gate (and, in the cors variant, request log and preflight)
MethodGate(i) ==
    /\ pc[i] = "method"
    /\ LET r == request[i]
           cors == r.variant = "cors"
           preflight == cors /\ r.method = "OPTIONS"
           rejected == ~preflight /\ MethodRejected(r.method)
       IN  /\ pc' = Upd(pc, i, IF preflight \/ rejected THEN "done"
                               ELSE IF r.variant = "vercel" THEN "fields"
                               ELSE "parse")
           /\ response' = Upd(response, i,
                  IF preflight THEN PreflightResponse
                  ELSE IF rejected
                       THEN ErrorResponse(405, MethodNotAllowedText(r.variant, r.method))
                       ELSE response[i])
           /\ log' = Upd(log, i,
                  IF ~cors THEN log[i]
                  ELSE log[i] \o <<<<"Incoming request:", r.method, "[url]", "[content-type]",
                                    "[origin]", "[user-agent]">>>>
                       \o (IF preflight THEN <<<<"Handling OPTIONS preflight request">>>>
                           ELSE IF rejected THEN <<<<"Invalid method:", r.method>>>>
                           ELSE <<<<"POST request received">>>>))
           /\ body' = Upd(body, i, AsIs(r.body))
    /\ UNCHANGED <<env, request, data, local, calls, payload>>

\* body parsing: JSON.parse(event.body), or JSON.parse(body) when it is a string
ParseBody(i) ==
    /\ pc[i] = "parse"
    /\ LET r == request[i]
           cors == r.variant = "cors"
           isText == r.body.kind \in {"malformed", "json"}
           parsed == JSONparse(r.body)
       IN  IF cors
           THEN /\ pc' = Upd(pc, i, IF isText /\ ~parsed.ok THEN "done" ELSE "fields")
                /\ body' = Upd(body, i, IF isText /\ parsed.ok THEN parsed.val ELSE body[i])
                /\ response' = Upd(response, i,
                       IF isText /\ ~parsed.ok
                       THEN ErrorResponse(400, <<"Invalid JSON in request body">>)
                       ELSE response[i])
                /\ log' = Upd(log, i,
                       IF isText /\ ~parsed.ok
                       THEN log[i] \o <<<<"Error parsing request body:", "SyntaxError">>>>
                       ELSE log[i])
                /\ UNCHANGED local
           ELSE /\ pc' = Upd(pc, i, IF parsed.ok THEN "fields" ELSE "catch")
                /\ body' = Upd(body, i, IF parsed.ok THEN parsed.val ELSE body[i])
                /\ local' = Upd(local, i,
                       IF parsed.ok THEN local[i]
                       ELSE [local[i] EXCEPT !.error = <<"SyntaxError: not valid JSON">>])
                /\ UNCHANGED <<response, log>>
    /\ UNCHANGED <<env, request, data, calls, payload>>

\* destructuring and the required-field gate
RequiredFields(i) ==
    /\ pc[i] = "fields"
    /\ LET r == request[i]
           throws == r.variant # "cors" /\ DestructureThrows(body[i])
           f == FieldsOf(body[i])
           missing == Falsy(f.name) \/ Falsy(f.email) \/ Falsy(f.message)
       IN  /\ pc' = Upd(pc, i, IF throws THEN "catch"
                               ELSE IF missing THEN "done" ELSE "email")
           /\ local' = Upd(local, i,
                  IF throws
                  THEN [local[i] EXCEPT !.error = <<"TypeError: cannot destructure">>]
                  ELSE local[i])
           /\ response' = Upd(response, i,
                  IF ~throws /\ missing
                  THEN ErrorResponse(400, <<"Missing required fields: name, email, message">>)
                  ELSE response[i])
           /\ data' = Upd(data, i, IF throws THEN data[i] ELSE f)
    /\ UNCHANGED <<env, request, body, log, calls, payload>>

\* e-mail gate
EmailGate(i) ==
    /\ pc[i] = "email"
    /\ LET pass == EmailRegexTest(data[i].email.s)
       IN  /\ pc' = Upd(pc, i, IF pass THEN "config" ELSE "done")
           /\ response' = Upd(response, i,
                  IF pass THEN response[i]
                  ELSE ErrorResponse(400, <<"Invalid email format">>))
    /\ UNCHANGED <<env, request, body, data, local, log, calls, payload>>

\* what the cors variant logs about the configuration
ConfigLog(token, chat) ==
    << <<"Telegram configuration check:">>,
       <<"- BOT_TOKEN exists:", ToString(~Falsy(token))>>,
       <<"- BOT_TOKEN length:", ToString(IF Falsy(token) THEN 0 ELSE Len(token.s))>>,
       <<"- CHAT_ID exists:", ToString(~Falsy(chat))>>,
       <<"- CHAT_ID value:", IF Falsy(chat) THEN "missing" ELSE "***">> >>

ConfigMissingLog(variant, token, chat) ==
    IF variant = "cors"
    THEN << <<"Telegram configuration missing">>,
            <<"- BOT_TOKEN:", IF Falsy(token) THEN "MISSING" ELSE "SET">>,
            <<"- CHAT_ID:", IF Falsy(chat) THEN "MISSING" ELSE "SET">> >>
    ELSE << <<"Telegram configuration missing">> >>

\* the environment is read and the configuration gate applied
ConfigGate(i) ==
    /\ pc[i] = "config"
    /\ LET v == request[i].variant
           token == env.BOT_TOKEN
           chat == env.CHAT_ID
           missing == ConfigMissing(token, chat)
       IN  /\ local' = Upd(local, i, [local[i] EXCEPT
                  !.BOT_TOKEN = token, !.CHAT_ID = chat,
                  !.chatId = [t |-> "string", s |-> chat.s, n |-> 0]])
           /\ pc' = Upd(pc, i, IF missing THEN "done"
                               ELSE IF v = "cors" THEN "chatid"
                               ELSE IF v = "topic" THEN "topic" ELSE "send")
           /\ response' = Upd(response, i,
                  IF missing THEN ErrorResponse(500, NotConfiguredText(v))
                  ELSE response[i])
           /\ log' = Upd(log, i,
                  log[i] \o (IF v = "cors" THEN ConfigLog(token, chat) ELSE <<>>)
                         \o (IF missing THEN ConfigMissingLog(v, token, chat) ELSE <<>>))
    /\ UNCHANGED <<env, request, body, data, calls, payload>>

\* cors variant: Number(CHAT_ID) and the isNaN gate
ChatIdGate(i) ==
    /\ pc[i] = "chatid"
    /\ LET chat == local[i].CHAT_ID
           chatIdNum == Number(chat.s)
       IN  /\ pc' = Upd(pc, i, IF chatIdNum.nan THEN "done" ELSE "send")
           /\ response' = Upd(response, i,
                  IF chatIdNum.nan
                  THEN ErrorResponse(500, <<"Invalid CHAT_ID format. Must be a number.">>)
                  ELSE response[i])
           /\ local' = Upd(local, i, [local[i] EXCEPT
                  !.chatId = IF chatIdNum.nan THEN @
                             ELSE [t |-> "number", s |-> <<>>, n |-> chatIdNum.n]])
           /\ log' = Upd(log, i,
                  log[i] \o (IF chatIdNum.nan
                             THEN << <<"Invalid CHAT_ID format:">> \o chat.s >>
                             ELSE << <<"Configuration valid">> >>))
    /\ UNCHANGED <<env, request, body, data, calls, payload>>

\* topicIdNum after `if (TOPIC_ID) { ... }`: null unless TOPIC_ID is truthy
\* and Number(TOPIC_ID) is not NaN
ResolvedTopic(topic) ==
    LET num == Number(topic.s)
    IN  IF Falsy(topic) \/ num.nan THEN NoTopic
        ELSE [null |-> FALSE, nan |-> FALSE, finite |-> num.finite, n |-> num.n]

\* the member message_thread_id of JSON.stringify(requestBody): set on the
\* object when topicId is neither null nor NaN, and written as null when
\* the number is not finite
ThreadMember(topicId) ==
    IF topicId.null \/ topicId.nan THEN NoMember
    ELSE IF topicId.finite THEN [k |-> "num", n |-> topicId.n]
    ELSE [k |-> "null", n |-> 0]

\* topic variant: TOPIC_ID is read and coerced; not a number counts as not set
TopicResolve(i) ==
    /\ pc[i] = "topic"
    /\ LET topic == env.TOPIC_ID
           num == Number(topic.s)
           invalid == ~Falsy(topic) /\ num.nan
       IN  /\ local' = Upd(local, i, [local[i] EXCEPT
                  !.topicIdNum = ResolvedTopic(topic)])
           /\ log' = Upd(log, i,
                  log[i] \o (IF invalid
                             THEN << <<"Invalid TOPIC_ID format, will send to general chat">> >>
                             ELSE <<>>))
    /\ pc' = Upd(pc, i, "send")
    /\ UNCHANGED <<env, request, body, data, response, calls, payload>>

\* chat id as console.log prints it
ChatIdText(c) == IF c.t = "number" THEN <<ToString(c.n)>> ELSE c.s

\* what the cors variant logs between the gates and fetch()
SendLog(d, chatId, text, url, token) ==
    << <<"Form data received:">> \o d.name.s \o <<"...">> \o d.email.s \o <<"...">>
          \o (IF Falsy(d.company) THEN <<"not provided">> ELSE d.company.s \o <<"...">>)
          \o <<ToString(Len(d.message.s))>>,
       <<"Formatted Telegram message length:", ToString(Len(text))>>,
       <<"Sending message to Telegram API...">>,
       <<"Calling Telegram Bot API...">>,
       <<"- URL:">> \o LoggedUrl(url, token),
       <<"- Chat ID:">> \o ChatIdText(chatId),
       <<"- Message length:", ToString(Len(text))>>,
       <<"Request body (chat_id only):">> \o ChatIdText(chatId) \o <<ToString(Len(text))>> >>

\* formatTelegramMessage, then sendTelegramMessage up to its fetch() call
Send(i) ==
    /\ pc[i] = "send"
    /\ LET v == request[i].variant
           d == data[i]
           token == local[i].BOT_TOKEN.s
           text == formatTelegramMessage(d.name, d.email, d.company, d.message)
           url == ApiUrl(token)
       IN  /\ payload' = Upd(payload, i,
                  [url |-> url, chat_id |-> local[i].chatId, text |-> text,
                   message_thread_id |-> ThreadMember(local[i].topicIdNum)])
           /\ log' = Upd(log, i,
                  log[i] \o (IF v = "cors"
                             THEN SendLog(d, local[i].chatId, text, url, token)
                             ELSE <<>>))
    /\ calls' = Upd(calls, i, calls[i] + 1)
    /\ pc' = Upd(pc, i, "fetch")
    /\ UNCHANGED <<env, request, body, data, local, response>>

\* mutant of AfterCallFailure: a failed call is issued again
AfterCallFailureRetry(variant) == "send"

\* where control goes when fetch() or response.json() rejects
AfterCallFailure(variant) == "catch"

\* the error that reaches the handler's catch block when the call fails
CallFailureText(variant, cause) ==
    IF variant = "cors" THEN <<"Failed to call Telegram API: ">> \o cause ELSE cause

CallFails(i, cause) ==
    LET v == request[i].variant
    IN  /\ local' = Upd(local, i, [local[i] EXCEPT !.error = CallFailureText(v, cause)])
        /\ log' = Upd(log, i,
               log[i] \o (IF v = "cors" THEN << <<"Fetch error:">> \o cause >> ELSE <<>>))
        /\ pc' = Upd(pc, i, AfterCallFailure(v))
        /\ UNCHANGED <<env, request, body, data, response, calls, payload>>

\* fetch() resolves with a response
FetchResolves(i) ==
    /\ pc[i] = "fetch"
    /\ pc' = Upd(pc, i, "json")
    /\ UNCHANGED <<env, request, body, data, local, response, log, calls, payload>>

\* fetch() rejects: the network call failed
FetchRejects(i) ==
    /\ pc[i] = "fetch"
    /\ CallFails(i, <<"fetch failed">>)

\* JSON.stringify(responseData) as the cors variant logs it
DataText(d) ==
    <<"ok:", ToString(d.ok)>>
    \o (IF d.hasResult THEN <<"message_id:", ToString(d.message_id)>> ELSE <<>>)
    \o (IF d.error_code # 0 THEN <<"error_code:", ToString(d.error_code)>> ELSE <<>>)
    \o (IF d.description # <<>> THEN <<"description:">> \o d.description ELSE <<>>)

\* response.json() resolves with the answer d of the bot API
JsonResolves(i) ==
    /\ pc[i] = "json"
    /\ \E d \in DownstreamData :
          /\ local' = Upd(local, i, [local[i] EXCEPT !.telegramResponse = d])
          /\ log' = Upd(log, i,
                 log[i] \o (IF request[i].variant = "cors"
                            THEN << <<"Telegram API raw response:">>,
                                    <<"- Status:", "[status]">>,
                                    <<"- Status text:", "[statusText]">>,
                                    <<"- Response data:">> \o DataText(d) >>
                            ELSE <<>>))
    /\ pc' = Upd(pc, i, "map")
    /\ UNCHANGED <<env, request, body, data, response, calls, payload>>

\* response.json() rejects: the answer is no JSON
JsonRejects(i) ==
    /\ pc[i] = "json"
    /\ CallFails(i, <<"SyntaxError: not valid JSON">>)

\* what the cors variant logs about the answer
AnswerLog(d) ==
    << <<"Telegram API response received:">>,
       <<"- ok:", ToString(d.ok)>>,
       <<"- error_code:", IF d.error_code = 0 THEN "undefined" ELSE ToString(d.error_code)>>,
       <<"- description:">> \o OrElse(d.description, <<"undefined">>) >>

\* response mapping: the ok flag of the answer decides
MapResponse(i) ==
    /\ pc[i] = "map"
    /\ LET v == request[i].variant
           d == local[i].telegramResponse
           good == d.ok /\ d.hasResult
           err == IF d.ok THEN <<"TypeError: cannot read message_id">>
                  ELSE ApiErrorText(v, d)
       IN  /\ pc' = Upd(pc, i, IF good THEN "done" ELSE "catch")
           /\ response' = Upd(response, i, IF good THEN SuccessResponse(d) ELSE response[i])
           /\ local' = Upd(local, i,
                  IF good THEN local[i] ELSE [local[i] EXCEPT !.error = err])
           /\ log' = Upd(log, i,
                  IF v # "cors" THEN log[i]
                  ELSE log[i] \o AnswerLog(d)
                       \o (IF d.ok THEN << <<"Telegram message sent successfully!">> >>
                           ELSE << <<"Telegram API error:">> \o err >>)
                       \o (IF good THEN << <<"- Message ID:", ToString(d.message_id)>> >>
                           ELSE <<>>))
    /\ UNCHANGED <<env, request, body, data, calls, payload>>

\* what the catch block logs
CatchLog(variant, error) ==
    IF variant = "cors"
    THEN << <<"Error sending Telegram notification:">> \o error,
            <<"Error name:", "Error">>,
            <<"Error message:">> \o error,
            <<"Error stack:">> \o error >>
    ELSE << <<"Error sending Telegram notification:">> \o error >>

\* the catch block of the handler
Catch(i) ==
    /\ pc[i] = "catch"
    /\ LET v == request[i].variant
       IN  /\ log' = Upd(log, i, log[i] \o CatchLog(v, local[i].error))
           /\ response' = Upd(response, i, CatchResponse(v, env.NODE_ENV, local[i].error))
    /\ pc' = Upd(pc, i, "done")
    /\ UNCHANGED <<env, request, body, data, local, calls, payload>>

\* the response has been handed to the platform; the invocation is over
Return(i) ==
    /\ pc[i] = "done"
    /\ pc' = Upd(pc, i, "idle")
    /\ request' = Upd(request, i, NoRequest)
    /\ body' = Upd(body, i, NoBody)
    /\ data' = Upd(data, i, NoFields)
    /\ local' = Upd(local, i, NoLocal)
    /\ response' = Upd(response, i, NoResponse)
    /\ log' = Upd(log, i, <<>>)
    /\ calls' = Upd(calls, i, 0)
    /\ payload' = Upd(payload, i, NoPayload)
    /\ UNCHANGED env

\* every step but the call of the handler
Steps(i) ==
    \/ MethodGate(i)
    \/ ParseBody(i)
    \/ RequiredFields(i)
    \/ EmailGate(i)
    \/ ConfigGate(i)
    \/ ChatIdGate(i)
    \/ TopicResolve(i)
    \/ Send(i)
    \/ FetchResolves(i)
    \/ FetchRejects(i)
    \/ JsonResolves(i)
    \/ JsonRejects(i)
    \/ MapResponse(i)
    \/ Catch(i)
    \/ Return(i)

Next == \E i \in Slots : Invoke(i) \/ Steps(i)

Spec == Init /\ [][Next]_vars

NextEmail == \E i \in Slots : InvokeEmail(i) \/ Steps(i)

SpecEmail == InitEmail /\ [][NextEmail]_vars

----------------------------------------------------------------------------
(* Topic specification: every kind of TOPIC_ID, submissions that reach it *)

\* texts TELEGRAM_TOPIC_ID is set to: empty, numbers (plain, signed, with
\* white space around), texts that are no number, and Infinity
TopicTexts ==
    {<<>>, <<"7">>, <<"-", "1">>, <<" ", "7", " ">>, <<"0">>,
     <<"x">>, <<"7", "x">>, <<"Infinity">>}

TopicEnvironments ==
    [BOT_TOKEN : {Str(Token)},
     CHAT_ID   : {Str(<<"-", "1", "0">>), Str(<<"x">>)},
     TOPIC_ID  : {Absent} \cup {Str(s) : s \in TopicTexts},
     NODE_ENV  : {Absent, Str(<<"development">>)}]

InitTopic == InitSlots(1, TopicEnvironments)

TopicValues ==
    Objects({Str(<<"n">>)}, {Str(ValidEmail), Str(<<"a", "@", "a">>)},
            {Absent, Str(<<"c">>)}, {Str(<<"m">>)})

TopicRequests == RequestsOver({"POST"}, TopicValues)

InvokeTopic(i) == pc[i] = "idle" /\ \E r \in TopicRequests : Start(i, r)

NextTopic == \E i \in Slots : InvokeTopic(i) \/ Steps(i)

SpecTopic == InitTopic /\ [][NextTopic]_vars

----------------------------------------------------------------------------
(* Format specification: submissions whose texts hold the HTML characters *)

\* longest text a form field varies over
MaxTextLen == 2

\* the five characters escapeHtml replaces, a letter and white space
TextChars == {"&", "<", ">", "\"", "'", "a", " "}

Texts == SeqsUpTo(TextChars, MaxTextLen)

\* e-mails the gate lets through, with every text without white space as
\* the local part or as the domain label
FormatEmails ==
    LET parts == SeqsUpTo(TextChars \ {" "}, MaxTextLen) \ {<<>>}
    IN  {s \o <<"@", "a", ".", "a">> : s \in parts}
        \cup {<<"a", "@">> \o s \o <<".", "a">> : s \in parts}

\* one field runs over all its texts while the others hold a character of
\* their own to escape
FormatValues ==
    LET name == {Str(<<"'">>)}
        email == {Str(ValidEmail)}
        company == {Str(<<"<">>)}
        message == {Str(<<"&", ">">>)}
    IN  Objects({Str(s) : s \in Texts \ {<<>>}}, email, company, message)
        \cup Objects(name, {Str(s) : s \in FormatEmails}, company, message)
        \cup Objects(name, email, {Absent, Null} \cup {Str(s) : s \in Texts}, message)
        \cup Objects(name, email, company, {Str(s) : s \in Texts \ {<<>>}})

FormatRequests ==
    {r \in RequestsOver({"POST"}, FormatValues) : r.body.kind \in {"json", "parsed"}}

FormatEnvironments ==
    [BOT_TOKEN : {Str(Token)},
     CHAT_ID   : {Str(<<"-", "1", "0">>)},
     TOPIC_ID  : {Absent},
     NODE_ENV  : {Absent}]

InitFormat == InitSlots(1, FormatEnvironments)

InvokeFormat(i) == pc[i] = "idle" /\ \E r \in FormatRequests : Start(i, r)

NextFormat == \E i \in Slots : InvokeFormat(i) \/ Steps(i)

SpecFormat == InitFormat /\ [][NextFormat]_vars

----------------------------------------------------------------------------
(* Pair specification: two invocations of the handlers, interleaved freely *)

\* two invocations in flight on one deployment
PairSlots == {1, 2}

PairEnvironments ==
    [BOT_TOKEN : {Absent, Str(Token)},
     CHAT_ID   : {Str(<<"-", "1", "0">>)},
     TOPIC_ID  : {Absent},
     NODE_ENV  : {Absent}]

InitPair == InitSlots(2, PairEnvironments)

PairValues ==
    Objects({Str(<<"n">>)}, {Str(ValidEmail), Str(<<"a", "@", "a">>)},
            {Absent}, {Str(<<"m">>)})

PairRequests ==
    {r \in RequestsOver({"POST", "GET"}, PairValues) :
        r.body.kind \in {"malformed", "json", "parsed"}}

InvokePair(i) == pc[i] = "idle" /\ \E r \in PairRequests : Start(i, r)

\* any step of either invocation: the event loop runs them in any order
\* between their suspension points
NextPair == \E i \in PairSlots : InvokePair(i) \/ Steps(i)

SpecPair == InitPair /\ [][NextPair]_vars

----------------------------------------------------------------------------
(* What the claims speak about *)

\* the form values the handler of invocation i is handed: the vercel variant
\* never parses text, so a text body carries no fields for it
Submitted(i) ==
    LET r == request[i]
    IN  IF r.body.kind = "parsed" \/ (r.body.kind = "json" /\ r.variant # "vercel")
        THEN FieldsOf(r.body.val)
        ELSE NoFields

\* a non-empty text
NonEmptyText(v) == v.k = "str" /\ v.s # <<>>

\* the shape <run>@<run>.<run>, runs of one or more characters that are
\* neither whitespace nor '@'
HasEmailShape(s) ==
    \E at \in 1..Len(s) : \E dot \in 1..Len(s) :
        /\ s[at] = "@"
        /\ s[dot] = "."
        /\ 1 < at /\ at + 1 < dot /\ dot < Len(s)
        /\ \A k \in 1..Len(s) : k # at => s[k] \notin {" ", "@"}

\* invocation i carries a POST with name, well-formed e-mail and message
ValidSubmission(i) ==
    /\ pc[i] # "idle"
    /\ request[i].method = "POST"
    /\ NonEmptyText(Submitted(i).name)
    /\ NonEmptyText(Submitted(i).message)
    /\ NonEmptyText(Submitted(i).email)
    /\ HasEmailShape(Submitted(i).email.s)

\* an optionally signed run of digits
NumericText(s) ==
    LET d == IF s # <<>> /\ s[1] = "-" THEN Tail(s) ELSE s
    IN  d # <<>> /\ \A k \in 1..Len(d) : d[k] \in {"0", "1", "7"}

\* token and chat id are there, and the chat id is a number where one is needed
ValidConfiguration(i) ==
    /\ NonEmptyText(env.BOT_TOKEN)
    /\ NonEmptyText(env.CHAT_ID)
    /\ request[i].variant = "cors" => NumericText(env.CHAT_ID.s)

\* the error text of every failure the catch block answers
GenericFailure == <<"Failed to send Telegram notification">>

----------------------------------------------------------------------------
(* C1 *)

\* C1: a request whose method is not POST (and not OPTIONS in the cors
\* variant) is answered 405 with success false, whatever its body, and the
\* invocation issues no call to the bot API.
C1_NonPostRejected ==
    \A i \in Slots :
        LET r == request[i]
        IN  (r.method # "POST" /\ ~(r.variant = "cors" /\ r.method = "OPTIONS"))
            => /\ calls[i] = 0
               /\ payload[i] = NoPayload
               /\ pc[i] \in {"method", "done"}
               /\ pc[i] = "done" => /\ response[i].status = 405
                                    /\ response[i].json
                                    /\ ~response[i].success

\* a GET carrying a complete, well-formed submission has been answered 405
C1_Witness ==
    \E i \in Slots :
        /\ pc[i] = "done"
        /\ request[i].method = "GET"
        /\ request[i].body.kind = "json"
        /\ request[i].body.val.f.name = Str(<<"n">>)
        /\ request[i].body.val.f.email = Str(ValidEmail)
        /\ request[i].body.val.f.message = Str(<<"m">>)
        /\ response[i].status = 405

----------------------------------------------------------------------------
(* C2 *)

\* C2: in every variant that parses a text body (netlify, topic, cors), a POST
\* whose body is not well-formed JSON is answered 400 with success false and
\* error "Invalid JSON in request body", and no call is issued.
C2_MalformedJsonIs400 ==
    \A i \in Slots :
        (/\ pc[i] = "done"
         /\ request[i].method = "POST"
         /\ request[i].variant \in {"netlify", "topic", "cors"}
         /\ request[i].body.kind = "malformed")
        => /\ response[i].status = 400
           /\ ~response[i].success
           /\ response[i].error = <<"Invalid JSON in request body">>
           /\ calls[i] = 0

----------------------------------------------------------------------------
(* C3 *)

\* C3: a POST whose body is valid JSON (or a value already parsed) in which
\* name, email or message is absent, null or empty - bodies that are null or
\* no object included - is answered 400 with success false and error
\* "Missing required fields: name, email, message".
C3_MissingFieldsIs400 ==
    \A i \in Slots :
        (/\ pc[i] = "done"
         /\ request[i].method = "POST"
         /\ request[i].body.kind \in {"json", "parsed"}
         /\ \/ ~NonEmptyText(FieldsOf(request[i].body.val).name)
            \/ ~NonEmptyText(FieldsOf(request[i].body.val).email)
            \/ ~NonEmptyText(FieldsOf(request[i].body.val).message))
        => /\ response[i].status = 400
           /\ ~response[i].success
           /\ response[i].error = <<"Missing required fields: name, email, message">>

----------------------------------------------------------------------------
(* C4 *)

\* the response that reports an ill-formed e-mail
InvalidEmailResponse(r) ==
    r.status = 400 /\ ~r.success /\ r.error = <<"Invalid email format">>

\* the steps up to and including the e-mail gate
BeforeEmailVerdict == {"idle", "method", "parse", "fields", "email"}

----------------------------------------------------------------------------
(* C5 *)

\* the two texts of the not-configured error
NotConfiguredTexts ==
    {<<"Telegram bot not configured">>,
     <<"Telegram bot not configured. Please set TELEGRAM_BOT_TOKEN and TELEGRAM_CHAT_ID environment variables.">>}

\* C5: a POST with valid name, e-mail and message, under an environment in
\* which the bot token or the chat id is unset or empty, is answered 500 with
\* success false and the not-configured error, and the invocation never
\* issues the call to the bot API.
C5_NotConfigured ==
    \A i \in Slots :
        (/\ ValidSubmission(i)
         /\ ~NonEmptyText(env.BOT_TOKEN) \/ ~NonEmptyText(env.CHAT_ID))
        => /\ calls[i] = 0
           /\ payload[i] = NoPayload
           /\ pc[i] \notin {"chatid", "topic", "send", "fetch", "json", "map", "catch"}
           /\ pc[i] = "done" => /\ response[i].status = 500
                                /\ response[i].json
                                /\ ~response[i].success
                                /\ response[i].error \in NotConfiguredTexts

\* a valid submission has been answered 500 with the token set and the chat
\* id empty
C5_Witness ==
    \E i \in Slots :
        /\ pc[i] = "done"
        /\ ValidSubmission(i)
        /\ env.BOT_TOKEN = Str(Token)
        /\ env.CHAT_ID = Str(<<>>)
        /\ response[i].status = 500
        /\ response[i].error \in NotConfiguredTexts

----------------------------------------------------------------------------
(* C6 *)

\* C6: a POST with valid input under a valid configuration issues the call,
\* and when the bot API has answered ok true with result.message_id = m the
\* response is 200 with success true and messageId m; a POST is answered 200
\* only after a call of the invocation has returned ok true.
C6_SuccessMapping ==
    \A i \in Slots :
        /\ (pc[i] = "done" /\ ValidSubmission(i) /\ ValidConfiguration(i))
           => /\ calls[i] = 1
              /\ (local[i].telegramResponse.ok /\ local[i].telegramResponse.hasResult)
                 => /\ response[i].status = 200
                    /\ response[i].success
                    /\ response[i].messageId =
                          [has |-> TRUE, id |-> local[i].telegramResponse.message_id]
        /\ (request[i].method = "POST" /\ response[i].status = 200)
           => /\ calls[i] = 1
              /\ local[i].telegramResponse.ok
              /\ ValidSubmission(i)
              /\ ValidConfiguration(i)

\* the cors variant has answered 200 with messageId 42 after the bot API
\* answered ok true with message_id 42
C6_Witness ==
    \E i \in Slots :
        /\ pc[i] = "done"
        /\ request[i].variant = "cors"
        /\ local[i].telegramResponse.ok
        /\ local[i].telegramResponse.message_id = 42
        /\ response[i].status = 200
        /\ response[i].messageId = [has |-> TRUE, id |-> 42]

----------------------------------------------------------------------------
(* C7 *)

\* C7: a POST with valid input under a valid configuration whose call was
\* answered ok false, or whose fetch() or response.json() rejected, is
\* answered 500 with success false and error "Failed to send Telegram
\* notification"; every failure ends in a response, none leaves the handler.
C7_DownstreamFailure ==
    \A i \in Slots :
        /\ (pc[i] = "done" /\ ValidSubmission(i) /\ ValidConfiguration(i)
            /\ ~local[i].telegramResponse.ok)
           => /\ response[i].status = 500
              /\ response[i].json
              /\ ~response[i].success
              /\ response[i].error = GenericFailure
        /\ pc[i] = "done" => response[i].status # 0
        /\ local[i].error # <<>> => pc[i] \in {"catch", "done"}

\* the cors variant has answered 500 after fetch() rejected
C7_Witness ==
    \E i \in Slots :
        /\ pc[i] = "done"
        /\ request[i].variant = "cors"
        /\ ValidSubmission(i)
        /\ calls[i] = 1
        /\ local[i].error = <<"Failed to call Telegram API: ", "fetch failed">>
        /\ response[i].status = 500
        /\ response[i].error = GenericFailure

----------------------------------------------------------------------------
(* C8 *)

\* C8: in every variant the body of a 500 response carries the details field
\* (the raw error text) only when NODE_ENV is 'development'.
C8_DetailsOnlyInDevelopment ==
    \A i \in Slots :
        (response[i].status = 500 /\ response[i].details # Absent)
        => env.NODE_ENV = Str(<<"development">>)

----------------------------------------------------------------------------
(* C9 *)

\* the entries of the log of invocation i
LogEntries(i) == {log[i][k] : k \in 1..Len(log[i])}

\* C9: on every path of every variant, no log entry the invocation has
\* written contains the value of the bot token, neither alone nor inside the
\* url of the call.
C9_TokenNeverLogged ==
    \A i \in Slots :
        NonEmptyText(env.BOT_TOKEN)
        => \A e \in LogEntries(i) : ~Contains(e, env.BOT_TOKEN.s)

\* the cors variant has logged the url of an issued call with the token
\* replaced
C9_Witness ==
    \E i \in Slots :
        /\ request[i].variant = "cors"
        /\ calls[i] = 1
        /\ Contains(payload[i].url, Token)
        /\ <<"- URL:", "https://api.telegram.org/bot", "TOKEN_HIDDEN", "/sendMessage">>
              \in LogEntries(i)

----------------------------------------------------------------------------
(* C10 *)

\* C10: an invocation issues at most one call to the bot API: the call is
\* outstanding or over exactly once fetch() was reached, and a failed or
\* rejected call is followed by the response, not by another call.
C10_SingleAttempt ==
    \A i \in Slots :
        /\ calls[i] <= 1
        /\ pc[i] \in {"fetch", "json", "map"} => calls[i] = 1
        /\ calls[i] = 0 => payload[i] = NoPayload

\* a call has been rejected and the invocation has answered 500 with one call
\* issued
C10_Witness ==
    \E i \in Slots :
        /\ pc[i] = "done"
        /\ calls[i] = 1
        /\ local[i].error = <<"fetch failed">>
        /\ response[i].status = 500

----------------------------------------------------------------------------
(* C11 *)

\* the message_thread_id the claim expects in the request body for each
\* TOPIC_ID text: none when the text is empty or no number, the number
\* otherwise (Infinity being a number, never the JSON value null)
ExpectedThread(topic, member) ==
    IF topic = Absent THEN member = NoMember
    ELSE CASE topic.s = <<>> -> member = NoMember
           [] topic.s = <<"7">> -> member = [k |-> "num", n |-> 7]
           [] topic.s = <<"-", "1">> -> member = [k |-> "num", n |-> 0 - 1]
           [] topic.s = <<" ", "7", " ">> -> member = [k |-> "num", n |-> 7]
           [] topic.s = <<"0">> -> member = [k |-> "num", n |-> 0]
           [] topic.s = <<"x">> -> member = NoMember
           [] topic.s = <<"7", "x">> -> member = NoMember
           [] topic.s = <<"Infinity">> -> member.k = "num"
           [] OTHER -> FALSE

\* the response of a valid submission under a valid configuration as the
\* answer of the bot API alone decides it (no TOPIC_ID in it)
AnswerDecidesResponse(i) ==
    LET d == local[i].telegramResponse
    IN  IF d.ok /\ d.hasResult
        THEN response[i] =
                 [status |-> 200, json |-> TRUE, success |-> TRUE, error |-> <<>>,
                  messageId |-> [has |-> TRUE, id |-> d.message_id],
                  details |-> Absent]
        ELSE response[i] =
                 [status |-> 500, json |-> TRUE, success |-> FALSE,
                  error |-> GenericFailure, messageId |-> NoId,
                  details |-> IF env.NODE_ENV = Str(<<"development">>)
                              THEN Str(local[i].error) ELSE Absent]

\* C11: in the topic variant, for every value of TOPIC_ID, the request body
\* of the call carries message_thread_id exactly when TOPIC_ID is set and is
\* a number, with that number as its value; a TOPIC_ID that is set and no
\* number does not fail the request: the call is issued without
\* message_thread_id and the response is the one the answer decides, as
\* with TOPIC_ID unset.
C11_TopicThread ==
    \A i \in Slots :
        (request[i].variant = "topic" /\ ValidSubmission(i))
        => /\ calls[i] = 1 => ExpectedThread(env.TOPIC_ID, payload[i].message_thread_id)
           /\ pc[i] = "done" => calls[i] = 1 /\ AnswerDecidesResponse(i)

----------------------------------------------------------------------------
(* C12 *)

\* the entity of a character: one of the five for the five characters,
\* the character itself otherwise
Entity(c) ==
    CASE c = "&" -> <<"&", "a", "m", "p", ";">>
      [] c = "<" -> <<"&", "l", "t", ";">>
      [] c = ">" -> <<"&", "g", "t", ";">>
      [] c = "\"" -> <<"&", "q", "u", "o", "t", ";">>
      [] c = "'" -> <<"&", "#", "0", "3", "9", ";">>
      [] OTHER -> <<c>>

\* a text with every character replaced by its entity, once
RECURSIVE Escaped(_)
Escaped(s) == IF s = <<>> THEN <<>> ELSE Entity(Head(s)) \o Escaped(Tail(s))

Entities == {Entity(c) : c \in {"&", "<", ">", "\"", "'"}}

\* no raw <, >, " or ' in the text, and no & but at the head of an entity
NoRawHtml(text) ==
    \A j \in 1..Len(text) :
        /\ text[j] \notin {"<", ">", "\"", "'"}
        /\ text[j] = "&"
           => \E e \in Entities :
                  j + Len(e) - 1 <= Len(text) /\ SubSeq(text, j, j + Len(e) - 1) = e

\* the message with the submitted values escaped once where they are inserted
EscapedMessage(f) ==
    <<"[title]", "[name:]">> \o Escaped(f.name.s)
    \o <<"[email:]">> \o Escaped(f.email.s)
    \o (IF f.company.k = "str" /\ (\E j \in 1..Len(f.company.s) : f.company.s[j] # " ")
        THEN <<"[company:]">> \o Escaped(f.company.s) ELSE <<>>)
    \o <<"[message:]">> \o Escaped(f.message.s)
    \o <<"[sent:]", "[dateTime]">>

\* C12: for every name, e-mail, company and message over an alphabet with
\* &, <, >, " and ', the formatted message has, where the values are
\* inserted, no raw <, >, " or ' and no & other than the head of an entity:
\* every such character is replaced by exactly its entity, & first, so that
\* no inserted entity is escaped again.
C12_EscapedOnce ==
    \A i \in Slots :
        calls[i] = 1
        => /\ payload[i].text = EscapedMessage(Submitted(i))
           /\ NoRawHtml(payload[i].text)

\* a name with & before < went out as &amp;&lt;
C12_Witness ==
    \E i \in Slots :
        /\ calls[i] = 1
        /\ Submitted(i).name = Str(<<"&", "<">>)
        /\ Contains(payload[i].text,
                    <<"[name:]", "&", "a", "m", "p", ";", "&", "l", "t", ";", "[email:]">>)

----------------------------------------------------------------------------
(* C13 *)

\* what the bot API answered to the call of invocation i: the data, or
\* which of fetch() and response.json() rejected
OwnAnswer(i) ==
    [data |-> local[i].telegramResponse,
     fetchRejected |-> Contains(local[i].error, <<"fetch failed">>),
     jsonRejected |-> Contains(local[i].error, <<"SyntaxError: not valid JSON">>)]

\* two finished invocations of the same request made the same call or none,
\* and with the same answer to it they gave the same response
SameInputsSameResult ==
    \A i \in PairSlots : \A j \in PairSlots :
        (request[i] = request[j] /\ pc[i] = "done" /\ pc[j] = "done")
        => /\ calls[i] = calls[j]
           /\ payload[i] = payload[j]
           /\ OwnAnswer(i) = OwnAnswer(j) => response[i] = response[j]

\* a step is a step of one invocation: it leaves the request, the response,
\* the call and everything local of the other as they are
OneInvocationSteps ==
    \E i \in PairSlots :
        /\ env' = env
        /\ \A j \in PairSlots \ {i} :
              <<pc[j], request[j], body[j], data[j], local[j],
                response[j], calls[j], payload[j]>>' =
              <<pc[j], request[j], body[j], data[j], local[j],
                response[j], calls[j], payload[j]>>

----------------------------------------------------------------------------
(* C14 *)

\* the gates in their order, and "none" when the request passes them all
Gates == <<"method", "parse", "fields", "email", "config", "chatid">>

\* does the request of invocation i, under the environment, fail gate g
FailsGate(i, g) ==
    LET r == request[i]
        f == Submitted(i)
    IN  CASE g = "method" -> r.method # "POST"
          [] g = "parse" -> r.variant # "vercel" /\ r.body.kind = "malformed"
          [] g = "fields" -> \/ ~NonEmptyText(f.name)
                             \/ ~NonEmptyText(f.email)
                             \/ ~NonEmptyText(f.message)
          [] g = "email" -> ~HasEmailShape(f.email.s)
          [] g = "config" -> ~NonEmptyText(env.BOT_TOKEN) \/ ~NonEmptyText(env.CHAT_ID)
          [] g = "chatid" -> r.variant = "cors" /\ ~NumericText(env.CHAT_ID.s)

\* the earliest gate the request fails
FirstFailingGate(i) ==
    IF \A k \in 1..Len(Gates) : ~FailsGate(i, Gates[k]) THEN "none"
    ELSE Gates[CHOOSE k \in 1..Len(Gates) :
                   /\ FailsGate(i, Gates[k])
                   /\ \A h \in 1..(k - 1) : ~FailsGate(i, Gates[h])]

\* is r the specific error of gate g
GateError(g, r) ==
    /\ r.json /\ ~r.success
    /\ CASE g = "method" -> r.status = 405
         [] g = "parse" -> r.status = 400 /\ r.error = <<"Invalid JSON in request body">>
         [] g = "fields" -> /\ r.status = 400
                            /\ r.error = <<"Missing required fields: name, email, message">>
         [] g = "email" -> r.status = 400 /\ r.error = <<"Invalid email format">>
         [] g = "config" -> r.status = 500 /\ r.error \in NotConfiguredTexts
         [] g = "chatid" -> /\ r.status = 500
                            /\ r.error = <<"Invalid CHAT_ID format. Must be a number.">>
         [] OTHER -> FALSE

\* C14: every handler answers with the error of the first gate the request
\* fails, in the order method, body parsing, required fields, e-mail format,
\* configuration presence, then chat id coercion where performed: a request
\* failing several gates gets the earliest gate's specific error only, and
\* the call to the bot API is issued only when every gate has passed.
C14_FirstFailingGate ==
    \A i \in Slots :
        (pc[i] # "idle" /\ ~(request[i].variant = "cors" /\ request[i].method = "OPTIONS"))
        => /\ calls[i] > 0 => FirstFailingGate(i) = "none"
           /\ (pc[i] = "done" /\ FirstFailingGate(i) # "none")
              => GateError(FirstFailingGate(i), response[i])

====
